---- MODULE Spec2Model ----
(* Model of scheduler.py: one booking run.  main() loads the config,         *)
(* resolves the booking day's pair of flats, checks their cookies, waits    *)
(* for the 06:00:02 release, books the morning slots with one thread per    *)
(* flat, retries the evening slot of every flat recorded FAILED, and        *)
(* reports through send_telegram and write_log.                             *)
EXTENDS Integers, Sequences, FiniteSets, TLC

\* ------------------------------------------------------------------ bounds
\* Days of wall-clock time covered by the model and clock ticks per day.
NumDays == 1
TicksPerDay == 5
MaxClock == TicksPerDay * NumDays - 1

\* ------------------------------------------------------- program constants
\* 06:00:02 as a tick of the day, and the 2.0 s switch to the fine wait.
ReleaseTick == 3
CoarseThreshold == 2
ATTEMPTS_PER_SLOT == 3

None == "<None>"
FAILED == "FAILED"
SUCCESS_MESSAGE == "Amenity has been Reserved"

DayNames == <<"Monday", "Tuesday", "Wednesday", "Thursday", "Friday", "Saturday", "Sunday">>
Weekend == {"Saturday", "Sunday"}

flats_info ==
  [Flat_Y  |-> [flat_number |-> "1711676", cookie_env |-> "FLAT_Y",  display |-> "Yuvi"],
   Flat_D  |-> [flat_number |-> "1711772", cookie_env |-> "FLAT_D",  display |-> "Dev"],
   Flat_SD |-> [flat_number |-> "1711056", cookie_env |-> "FLAT_SD", display |-> "Sadu"],
   Flat_M  |-> [flat_number |-> "1711772", cookie_env |-> "FLAT_M",  display |-> "Manoj"],
   Flat_SY |-> [flat_number |-> "1711289", cookie_env |-> "FLAT_SY", display |-> "Sanjay"]]

\* ------------------------------------------------------------------ inputs
\* booking_config.json: the pair each mapped day books, the day sets a
\* config may map, and the slot catalog (evening is optional).
PairTable ==
  [d \in {DayNames[n] : n \in 1..7} |->
     IF d = "Saturday" THEN <<"Flat_D", "Flat_Y">> ELSE <<"Flat_Y", "Flat_D">>]

KeySets == {{}, {"Monday"}, {"Monday", "Saturday"}}

MorningSlots == <<"M1", "M2">>
EveningSlots == <<"E1", "E2">>

Configs ==
  {[loadOk |-> FALSE, mapIsNone |-> FALSE, keys |-> {}, hasEvening |-> FALSE]}
  \cup {[loadOk |-> TRUE, mapIsNone |-> TRUE, keys |-> {}, hasEvening |-> FALSE]}
  \cup {[loadOk |-> TRUE, mapIsNone |-> FALSE, keys |-> ks, hasEvening |-> e] :
          ks \in KeySets, e \in BOOLEAN}

\* Environment variables holding a cookie, by cookie_env name.
CookieEnvs == {"FLAT_Y", "FLAT_D"}

\* The notifier's environment: the bot token alone, or token and chat id.
TelegramEnvs == {{"TELEGRAM_BOT_TOKEN"}, {"TELEGRAM_BOT_TOKEN", "TELEGRAM_CHAT_ID"}}

\* Reservation ids the remote API may return in data.facUserId.
Ids == {"R1", "FAILED"}

DataVals ==
  {[shape |-> "absent", facUserId |-> None], [shape |-> "notdict", facUserId |-> None]}
  \cup {[shape |-> "dict", facUserId |-> x] : x \in Ids \cup {None}}

\* What one requests.post to the reservation API can produce: a transport
\* exception, a body that is not JSON, a JSON value that is not an object,
\* or a JSON object with a message and possibly a data member.
Responses ==
  {[kind |-> k, message |-> None, data |-> [shape |-> "absent", facUserId |-> None]] :
      k \in {"exception", "nonjson", "array"}}
  \cup {[kind |-> "object", message |-> m, data |-> [shape |-> "absent", facUserId |-> None]] :
      m \in {None, "amenity has been reserved", "Slot not available"}}
  \cup {[kind |-> "object", message |-> SUCCESS_MESSAGE, data |-> d] : d \in DataVals}

VARIABLES pc, cfg, today, env, clock, gate, flats_pair, booked_info, result,
          res_evening, i, phase, threads, tsp_result, requests, sent, delivered,
          log, written

vars == <<pc, cfg, today, env, clock, gate, flats_pair, booked_info, result,
          res_evening, i, phase, threads, tsp_result, requests, sent, delivered,
          log, written>>

\* --------------------------------------------------------------- helpers
Range(s) == {s[n] : n \in 1..Len(s)}
Min(a, b) == IF a < b THEN a ELSE b
EmptyDict == [k \in {} |-> [success |-> FALSE, facUserId |-> None]]

\* booking_date_obj = now + 2 days, as a day number and a weekday name
booking_date == today + 2
booking_day == DayNames[((today + 2) % 7) + 1]

weekday_flat_map == [d \in cfg.keys |-> PairTable[d]]
morning_slots == MorningSlots
evening_slots == IF cfg.hasEvening THEN EveningSlots ELSE <<>>

getenvAlwaysSet(name) == TRUE
getenv(name) == name \in env

\* now.replace(hour=6, minute=0, second=2, microsecond=0)
ReplaceTo6am(now) == (now \div TicksPerDay) * TicksPerDay + ReleaseTick

\* ------------------------------------------------------------- messages
Message(kind, day, display, ok, bad) ==
  [kind |-> kind, date |-> booking_date, day |-> day, display |-> display,
   success_lines |-> ok, fail_lines |-> bad]

ConfigErrorMsg == [Message("ConfigLoadError", None, None, <<>>, <<>>) EXCEPT !.date = 0]
NoBookingMsg(day) == Message("NoBookingScheduled", day, None, <<>>, <<>>)
CookieMissingMsg(flat) == Message("CookieMissing", None, flats_info[flat].display, <<>>, <<>>)
CrashMsg == [Message("Crashed", None, None, <<>>, <<>>) EXCEPT !.date = 0]
\* What booking_log.txt holds before the run: the record of an earlier run.
PreviousLog == [Message("PreviousRun", None, None, <<>>, <<>>) EXCEPT !.date = 0]

IsBooked(e) == e[3] # FAILED
IsFailed(e) == e[3] = FAILED
Line(e) == <<e[1], flats_info[e[2]].display, e[3]>>
Lines(s) == [n \in 1..Len(s) |-> Line(s[n])]
FinalMsg(info) ==
  Message("Final", None, None, Lines(SelectSeq(info, IsBooked)), Lines(SelectSeq(info, IsFailed)))

\* Lines 20-21 and 49: the notifier is configured
TELEGRAM_BOT_TOKEN == getenv("TELEGRAM_BOT_TOKEN")
TELEGRAM_CHAT_ID == getenv("TELEGRAM_CHAT_ID")

\* Lines 49-58: what a call of send_telegram can do with the message: return
\* at once when unconfigured, else post it, and the post may raise.
DeliveryOutcomes ==
  IF ~TELEGRAM_BOT_TOKEN \/ ~TELEGRAM_CHAT_ID THEN {"skipped"} ELSE {"posted", "failed"}

\* Lines 57-58: the bare except swallows a failed post
NotifierRaisesOnFailure(outcome) == outcome = "failed"
NotifierRaises(outcome) == FALSE

\* send_telegram(msg) called from main, which then returns or goes on to
\* next: the message is handed to the notifier and delivered or not.
send_telegram(msg, next) ==
  \E outcome \in DeliveryOutcomes :
     /\ sent' = Append(sent, msg)
     /\ delivered' = IF outcome = "posted" THEN Append(delivered, msg) ELSE delivered
     /\ pc' = IF NotifierRaises(outcome) THEN "crash" ELSE next

\* ----------------------------------------------------------- make_booking
FailOutcome == [success |-> FALSE, facUserId |-> None]

\* Lines 84-91: the outcome stored in result[key] for a response.
OutcomeExceptionIgnored(resp) ==
  IF resp.kind = "exception" THEN [success |-> TRUE, facUserId |-> None]
  ELSE IF resp.kind # "object" THEN FailOutcome
  ELSE IF resp.message # SUCCESS_MESSAGE THEN [success |-> FALSE, facUserId |-> None]
  ELSE IF resp.data.shape = "notdict" THEN FailOutcome
  ELSE [success |-> TRUE, facUserId |-> resp.data.facUserId]
Outcome(resp) ==
  IF resp.kind # "object" THEN FailOutcome
  ELSE IF resp.message # SUCCESS_MESSAGE THEN [success |-> FALSE, facUserId |-> None]
  ELSE IF resp.data.shape = "notdict" THEN FailOutcome
  ELSE [success |-> TRUE, facUserId |-> resp.data.facUserId]

\* Where make_booking goes after storing an outcome: it returns, there is
\* no loop around the request.
RetryingNext(outcome, tries) == IF outcome.success THEN "done" ELSE "post"
AfterOutcome(outcome, tries) == "done"

NewThreadSameKey(flat, slot, key) ==
  [pc |-> "new", flat |-> flat, slot |-> slot, key |-> 1, tries |-> 0,
   resp |-> [kind |-> "none", message |-> None, data |-> [shape |-> "absent", facUserId |-> None]]]
NewThread(flat, slot, key) ==
  [pc |-> "new", flat |-> flat, slot |-> slot, key |-> key, tries |-> 0,
   resp |-> [kind |-> "none", message |-> None, data |-> [shape |-> "absent", facUserId |-> None]]]

\* -------------------------------------------------------------------- Init
Init ==
  /\ pc = "load"
  /\ cfg \in Configs
  /\ today \in 0..6
  /\ env \in {cookies \cup telegram : cookies \in SUBSET CookieEnvs, telegram \in TelegramEnvs}
  /\ clock \in 0..MaxClock
  /\ gate = [now |-> 0, target |-> 0, slept |-> FALSE, returned |-> FALSE]
  /\ flats_pair = <<>>
  /\ booked_info = <<>>
  /\ result = EmptyDict
  /\ res_evening = EmptyDict
  /\ i = 0
  /\ phase = "none"
  /\ threads = <<>>
  /\ tsp_result = EmptyDict
  /\ requests = <<>>
  /\ sent = <<>>
  /\ delivered = <<>>
  /\ log = PreviousLog
  /\ written = "no"

\* The wall clock advances for as long as the run can still read it: now_ist()
\* is called at line 146 and inside the wait, never after the wait returned.
Tick ==
  /\ pc # "done"
  /\ ~gate.returned
  /\ clock < MaxClock
  /\ clock' = clock + 1
  /\ UNCHANGED <<pc, cfg, today, env, gate, flats_pair, booked_info, result,
                 res_evening, i, phase, threads, tsp_result, requests, sent, delivered, log, written>>

\* An exception raised in main() leaves it for the handler of lines 207-210.
CrashSilently ==
  /\ pc' = "done"
  /\ UNCHANGED <<sent, delivered>>
Crash ==
  /\ pc' = "crash"
  /\ UNCHANGED <<sent, delivered>>

\* Lines 209-210: the last-resort notification
HandleCrash ==
  /\ pc = "crash"
  /\ \E outcome \in DeliveryOutcomes :
       /\ sent' = Append(sent, CrashMsg)
       /\ delivered' = IF outcome = "posted" THEN Append(delivered, CrashMsg) ELSE delivered
  /\ pc' = "done"
  /\ UNCHANGED <<cfg, today, env, clock, gate, flats_pair, booked_info, result,
                 res_evening, i, phase, threads, tsp_result, requests, log, written>>

\* Line 137: the return after the config load error
FallsThrough == "resolve"
AfterConfigError == "done"

\* Lines 133-137
LoadConfig ==
  /\ pc = "load"
  /\ IF cfg.loadOk
       THEN pc' = "resolve" /\ UNCHANGED <<sent, delivered>>
       ELSE send_telegram(ConfigErrorMsg, AfterConfigError)
  /\ UNCHANGED <<cfg, today, env, clock, gate, flats_pair, booked_info, result,
                 res_evening, i, phase, threads, tsp_result, requests, log, written>>

\* Line 151: booking_day not in weekday_flat_map
NotInMapAlways(day, keys) == FALSE
NotInMap(day, keys) == day \notin keys

\* Lines 139-155
ResolvePair ==
  /\ pc = "resolve"
  /\ IF cfg.mapIsNone
       THEN Crash /\ UNCHANGED flats_pair
       ELSE IF NotInMap(booking_day, cfg.keys)
         THEN /\ send_telegram(NoBookingMsg(booking_day), "done")
              /\ UNCHANGED flats_pair
         ELSE IF booking_day \in DOMAIN weekday_flat_map
           THEN /\ flats_pair' = weekday_flat_map[booking_day]
                /\ pc' = "check"
                /\ UNCHANGED <<sent, delivered>>
           ELSE Crash /\ UNCHANGED flats_pair
  /\ UNCHANGED <<cfg, today, env, clock, gate, booked_info, result,
                 res_evening, i, phase, threads, tsp_result, requests, log, written>>

\* Line 159: not os.getenv(flats_info[flat]["cookie_env"])
CookieNeverMissing(flat) == FALSE
CookieMissing(flat) == ~getenv(flats_info[flat].cookie_env)

\* Lines 157-161: the first flat of the pair without a cookie aborts the run
CheckCookies ==
  /\ pc = "check"
  /\ LET missing == {n \in 1..Len(flats_pair) : CookieMissing(flats_pair[n])}
     IN IF missing # {}
          THEN LET first == CHOOSE n \in missing : \A m \in missing : n <= m
               IN send_telegram(CookieMissingMsg(flats_pair[first]), "done")
          ELSE pc' = "gate" /\ UNCHANGED <<sent, delivered>>
  /\ UNCHANGED <<cfg, today, env, clock, gate, flats_pair, booked_info, result,
                 res_evening, i, phase, threads, tsp_result, requests, log, written>>

\* ------------------------------------------------ wait_until_6am_or_run_now
\* Line 113: already past the release instant
AlreadyPast(now, target) == now >= target
\* Line 120: close enough to switch to the fine wait
CoarseDone(now, target) == target - now <= CoarseThreshold
\* Line 125: the fine wait keeps sleeping
FineNeverWaits(now, target) == FALSE
FineWaits(now, target) == now < target

\* The wait has returned: its local now is gone; the target it waited for
\* and whether it slept stay on record.
Returned(target, slept) == [now |-> 0, target |-> target, slept |-> slept, returned |-> TRUE]

\* Lines 109-114
GateEnter ==
  /\ pc = "gate"
  /\ LET now == clock
         target == ReplaceTo6am(now)
     IN IF AlreadyPast(now, target)
          THEN pc' = "morning" /\ gate' = Returned(target, FALSE)
          ELSE pc' = "coarse" /\
               gate' = [now |-> now, target |-> target, slept |-> FALSE, returned |-> FALSE]
  /\ UNCHANGED <<cfg, today, env, clock, flats_pair, booked_info, result,
                 res_evening, i, phase, threads, tsp_result, requests, sent, delivered,
                 log, written>>

\* Lines 117-122: one iteration of the coarse loop
GateCoarse ==
  /\ pc = "coarse"
  /\ IF CoarseDone(clock, gate.target)
       THEN pc' = "fine" /\ gate' = [gate EXCEPT !.now = clock]
       ELSE pc' = "coarse" /\ gate' = [gate EXCEPT !.now = clock, !.slept = TRUE]
  /\ UNCHANGED <<cfg, today, env, clock, flats_pair, booked_info, result,
                 res_evening, i, phase, threads, tsp_result, requests, sent, delivered,
                 log, written>>

\* Lines 125-126: one iteration of the fine loop
GateFine ==
  /\ pc = "fine"
  /\ IF FineWaits(clock, gate.target)
       THEN pc' = "fine" /\ gate' = [gate EXCEPT !.slept = TRUE]
       ELSE pc' = "morning" /\ gate' = Returned(gate.target, gate.slept)
  /\ UNCHANGED <<cfg, today, env, clock, flats_pair, booked_info, result,
                 res_evening, i, phase, threads, tsp_result, requests, sent, delivered,
                 log, written>>

\* ---------------------------------------------------------- try_slot_pair
\* Lines 94-97: result = {}, one thread per zipped (flat, slot), key from 1
CallTrySlotPair(flats, slots) ==
  /\ threads' = [k \in 1..Min(Len(flats), Len(slots)) |-> NewThread(flats[k], slots[k], k)]
  /\ tsp_result' = EmptyDict
  /\ pc' = "spawn"

\* Line 166: the morning call
StartMorning ==
  /\ pc = "morning"
  /\ phase' = "morning"
  /\ CallTrySlotPair(flats_pair, morning_slots)
  /\ UNCHANGED <<cfg, today, env, clock, gate, flats_pair, booked_info, result,
                 res_evening, i, requests, sent, delivered, log, written>>

\* Lines 97-101: t.start() for the next thread, in order
SpawnThread ==
  /\ pc = "spawn"
  /\ LET new == {k \in 1..Len(threads) : threads[k].pc = "new"}
     IN IF new = {}
          THEN pc' = "join" /\ UNCHANGED threads
          ELSE LET k == CHOOSE n \in new : \A m \in new : n <= m
               IN threads' = [threads EXCEPT ![k].pc = "start"] /\ UNCHANGED pc
  /\ UNCHANGED <<cfg, today, env, clock, gate, flats_pair, booked_info, result,
                 res_evening, i, phase, tsp_result, requests, sent, delivered, log, written>>

\* Lines 68-72: a thread reads its cookie; without one it stores a failure
ThreadCookie(k) ==
  /\ k \in 1..Len(threads)
  /\ threads[k].pc = "start"
  /\ IF getenv(flats_info[threads[k].flat].cookie_env)
       THEN /\ threads' = [threads EXCEPT ![k].pc = "post"]
            /\ UNCHANGED tsp_result
       ELSE /\ threads' = [threads EXCEPT ![k].pc = "done"]
            /\ tsp_result' = (threads[k].key :> FailOutcome) @@ tsp_result
  /\ UNCHANGED <<pc, cfg, today, env, clock, gate, flats_pair, booked_info, result,
                 res_evening, i, phase, requests, sent, delivered, log, written>>

\* Line 85: the request goes out
ThreadPost(k) ==
  /\ k \in 1..Len(threads)
  /\ threads[k].pc = "post"
  /\ requests' = Append(requests, [flat |-> threads[k].flat, slot |-> threads[k].slot,
                                   phase |-> phase])
  /\ threads' = [threads EXCEPT ![k].pc = "wait", ![k].tries = @ + 1]
  /\ UNCHANGED <<pc, cfg, today, env, clock, gate, flats_pair, booked_info, result,
                 res_evening, i, phase, tsp_result, sent, delivered, log, written>>

\* Lines 85-91: the response (or exception) arrives and the outcome is stored
ThreadResponse(k) ==
  /\ k \in 1..Len(threads)
  /\ threads[k].pc = "wait"
  /\ \E resp \in Responses :
       /\ tsp_result' = (threads[k].key :> Outcome(resp)) @@ tsp_result
       /\ threads' = [threads EXCEPT ![k].resp = resp,
                                     ![k].pc = AfterOutcome(Outcome(resp), threads[k].tries)]
  /\ UNCHANGED <<pc, cfg, today, env, clock, gate, flats_pair, booked_info, result,
                 res_evening, i, phase, requests, sent, delivered, log, written>>

\* Lines 103-106: every thread joined, the dict is returned to the caller
JoinAndReturn ==
  /\ pc = "join"
  /\ \A k \in 1..Len(threads) : threads[k].pc = "done"
  /\ threads' = <<>>
  /\ IF phase = "morning"
       THEN result' = tsp_result /\ pc' = "collect" /\ UNCHANGED res_evening
       ELSE res_evening' = tsp_result /\ pc' = "update" /\ UNCHANGED result
  /\ UNCHANGED <<cfg, today, env, clock, gate, flats_pair, booked_info,
                 i, phase, tsp_result, requests, sent, delivered, log, written>>

\* ------------------------------------------------------- main, lines 167-182
\* Lines 169-172: the entry recorded for a morning outcome
MorningEntry(slot, flat, r) ==
  IF r.success THEN <<slot, flat, r.facUserId>> ELSE <<slot, flat, FAILED>>

\* Lines 167-172
CollectMorning ==
  /\ pc = "collect"
  /\ IF \A n \in 1..Len(flats_pair) : n \in DOMAIN result /\ n <= Len(morning_slots)
       THEN /\ booked_info' = [n \in 1..Len(flats_pair) |->
                                  MorningEntry(morning_slots[n], flats_pair[n], result[n])]
            /\ pc' = "evening"
            /\ i' = 1
            /\ UNCHANGED <<sent, delivered>>
       ELSE Crash /\ UNCHANGED <<booked_info, i>>
  /\ UNCHANGED <<cfg, today, env, clock, gate, flats_pair, result,
                 res_evening, phase, threads, tsp_result, requests, log, written>>

\* Line 178: the entry is retried on its evening slot
RetryAll(fac_id) == TRUE
NeedsEvening(fac_id) == fac_id = FAILED

\* Lines 175-179: the loop over booked_info, up to the next evening call
EveningLoop ==
  /\ pc = "evening"
  /\ IF evening_slots = <<>> \/ i > Len(booked_info)
       THEN pc' = "report" /\ UNCHANGED <<i, phase, threads, tsp_result>>
       ELSE IF NeedsEvening(booked_info[i][3])
         THEN /\ phase' = "evening"
              /\ CallTrySlotPair(<<booked_info[i][2]>>, <<evening_slots[i]>>)
              /\ UNCHANGED i
         ELSE i' = i + 1 /\ UNCHANGED <<pc, phase, threads, tsp_result>>
  /\ UNCHANGED <<cfg, today, env, clock, gate, flats_pair, booked_info, result,
                 res_evening, requests, sent, delivered, log, written>>

\* Line 181: the evening outcome replaces the entry
AlwaysReplace(r2) == TRUE
ReplacesEntry(r2) == r2.success

\* Lines 180-182
EveningUpdate ==
  /\ pc = "update"
  /\ IF 1 \in DOMAIN res_evening
       THEN /\ booked_info' =
                 IF ReplacesEntry(res_evening[1])
                   THEN [booked_info EXCEPT ![i] =
                            <<evening_slots[i], booked_info[i][2], res_evening[1].facUserId>>]
                   ELSE booked_info
            /\ i' = i + 1
            /\ pc' = "evening"
            /\ UNCHANGED <<sent, delivered>>
       ELSE Crash /\ UNCHANGED <<booked_info, i>>
  /\ UNCHANGED <<cfg, today, env, clock, gate, flats_pair, result,
                 res_evening, phase, threads, tsp_result, requests, log, written>>

\* Lines 184-203
Report ==
  /\ pc = "report"
  /\ send_telegram(FinalMsg(booked_info), "log")
  /\ UNCHANGED <<cfg, today, env, clock, gate, flats_pair, booked_info, result,
                 res_evening, i, phase, threads, tsp_result, requests, log, written>>

\* Line 204 and lines 60-65: the record is overwritten with final_msg, or
\* the write fails and the failure is swallowed
write_log ==
  /\ pc = "log"
  /\ \/ log' = FinalMsg(booked_info) /\ written' = "ok"
     \/ log' = log /\ written' = "failed"
  /\ pc' = "done"
  /\ UNCHANGED <<cfg, today, env, clock, gate, flats_pair, booked_info, result,
                 res_evening, i, phase, threads, tsp_result, requests, sent, delivered>>

Next ==
  \/ Tick
  \/ LoadConfig
  \/ ResolvePair
  \/ CheckCookies
  \/ GateEnter
  \/ GateCoarse
  \/ GateFine
  \/ StartMorning
  \/ SpawnThread
  \/ \E k \in 1..2 : ThreadCookie(k)
  \/ \E k \in 1..2 : ThreadPost(k)
  \/ \E k \in 1..2 : ThreadResponse(k)
  \/ JoinAndReturn
  \/ CollectMorning
  \/ EveningLoop
  \/ EveningUpdate
  \/ Report
  \/ write_log
  \/ HandleCrash

Spec == Init /\ [][Next]_vars

\* The main thread, each worker thread and the clock keep running: the
\* interpreter schedules every runnable thread, every request returns or
\* times out (timeout=10), and time passes.
MainStep ==
  \/ LoadConfig \/ ResolvePair \/ CheckCookies \/ GateEnter \/ GateCoarse \/ GateFine
  \/ StartMorning \/ SpawnThread \/ JoinAndReturn \/ CollectMorning \/ EveningLoop
  \/ EveningUpdate \/ Report \/ write_log \/ HandleCrash
ThreadStep(k) == ThreadCookie(k) \/ ThreadPost(k) \/ ThreadResponse(k)

LiveSpec ==
  /\ Init /\ [][Next]_vars
  /\ WF_vars(Tick)
  /\ WF_vars(MainStep)
  /\ \A k \in 1..2 : WF_vars(ThreadStep(k))

\* try_slot_pair and the rest of main entered at line 166 under any
\* environment: the cookies read by make_booking need not be the ones the
\* check of lines 158-161 saw.
BookerInit ==
  /\ pc = "morning"
  /\ cfg \in {c \in Configs : c.loadOk /\ ~c.mapIsNone /\ c.keys # {}}
  /\ today \in {t \in 0..6 : DayNames[((t + 2) % 7) + 1] \in cfg.keys}
  /\ env \in {cookies \cup telegram : cookies \in SUBSET CookieEnvs, telegram \in TelegramEnvs}
  /\ clock \in {c \in 0..MaxClock : c >= ReplaceTo6am(c)}
  /\ gate = Returned(ReplaceTo6am(clock), FALSE)
  /\ flats_pair = PairTable[DayNames[((today + 2) % 7) + 1]]
  /\ booked_info = <<>>
  /\ result = EmptyDict
  /\ res_evening = EmptyDict
  /\ i = 0
  /\ phase = "none"
  /\ threads = <<>>
  /\ tsp_result = EmptyDict
  /\ requests = <<>>
  /\ sent = <<>>
  /\ delivered = <<>>
  /\ log = PreviousLog
  /\ written = "no"

BookerNext ==
  \/ StartMorning
  \/ SpawnThread
  \/ \E k \in 1..2 : ThreadCookie(k)
  \/ \E k \in 1..2 : ThreadPost(k)
  \/ \E k \in 1..2 : ThreadResponse(k)
  \/ JoinAndReturn
  \/ CollectMorning
  \/ EveningLoop
  \/ EveningUpdate
  \/ Report
  \/ write_log

BookerSpec == BookerInit /\ [][BookerNext]_vars

\* ================================================================ claims
Finished == pc = "done" /\ sent # <<>> /\ sent[Len(sent)].kind = "Final"
CallsFor(flat, slot, ph) ==
  {n \in 1..Len(requests) :
     requests[n].flat = flat /\ requests[n].slot = slot /\ requests[n].phase = ph}
EveningCalls == {n \in 1..Len(requests) : requests[n].phase = "evening"}
MorningCalls == {n \in 1..Len(requests) : requests[n].phase = "morning"}
RecordedFailed(n) == ~result[n].success \/ result[n].facUserId = FAILED

\* C1: no reservation request is sent before the release instant: requests
\* exist only after the wait has returned, every step that sends a request
\* is taken with the clock at or past the target, the target is 06:00:02 of
\* the day the wait is entered, and a wait entered at or past the target
\* returns in that step without sleeping.
C1_ReleaseGate ==
  /\ [](requests # <<>> => gate.returned)
  /\ [][(pc = "gate" /\ clock' = clock) =>
          /\ gate'.target = (clock \div TicksPerDay) * TicksPerDay + ReleaseTick
          /\ clock >= gate'.target =>
                (pc' = "morning" /\ gate'.returned /\ ~gate'.slept)]_vars
  /\ [][requests' # requests => (gate.returned /\ clock >= gate.target)]_vars

\* The run was started before the release, slept in the wait, and has sent
\* a request.
C1_Witness == requests # <<>> /\ gate.slept

\* C2 (as stated): after a morning in which exactly one resource succeeded,
\* with an evening catalog configured, both resources of the pair are
\* attempted on the evening slots.
C2_WholePairAdvances ==
  (Finished /\ cfg.hasEvening /\ result[1].success # result[2].success) =>
     \A n \in 1..2 : CallsFor(flats_pair[n], EveningSlots[n], "evening") # {}

\* C2 (amended): after a morning in which exactly one resource succeeded,
\* with an evening catalog configured, a resource is attempted on its evening
\* slot exactly when its morning entry was recorded FAILED, and then once.
C2_OnlyFailedRetried ==
  (Finished /\ cfg.hasEvening /\ result[1].success # result[2].success) =>
     \A n \in 1..2 :
        Cardinality(CallsFor(flats_pair[n], EveningSlots[n], "evening"))
          = IF RecordedFailed(n) THEN 1 ELSE 0

\* One resource booked in the morning and kept, the other one retried alone.
C2_Witness ==
  /\ Finished /\ cfg.hasEvening
  /\ result[1].success /\ result[1].facUserId # FAILED /\ ~result[2].success
  /\ Cardinality(EveningCalls) = 1

\* C3 (as stated): no run ends with one resource booked in the morning
\* window and the other booked in the evening window.
C3_NoMixedWindows ==
  Finished =>
    ~ \E a, b \in 1..Len(booked_info) :
         /\ booked_info[a][1] \in Range(MorningSlots) /\ booked_info[a][3] # FAILED
         /\ booked_info[b][1] \in Range(EveningSlots) /\ booked_info[b][3] # FAILED

\* C3 (amended): an entry of booked_info changes only in the step that
\* handles its own evening outcome, only from a morning entry recorded
\* FAILED, only when that evening outcome succeeded, and the other entries
\* are left as they are; so a run may end with the pair split across windows.
C3_EveningOnlyAfterOwnFailure ==
  [][\A n \in 1..Len(booked_info) :
        booked_info'[n] # booked_info[n] =>
          /\ pc = "update" /\ n = i
          /\ booked_info[n][1] = MorningSlots[n] /\ booked_info[n][3] = FAILED
          /\ res_evening[1].success
          /\ booked_info'[n] = <<EveningSlots[n], flats_pair[n], res_evening[1].facUserId>>
          /\ \A m \in 1..Len(booked_info) : m # n => booked_info'[m] = booked_info[m]]_vars

\* A finished run with one resource booked in the morning window and the
\* other booked in the evening window.
C3_Witness ==
  /\ Finished
  /\ \E a, b \in 1..Len(booked_info) :
         /\ booked_info[a][1] \in Range(MorningSlots) /\ booked_info[a][3] # FAILED
         /\ booked_info[b][1] \in Range(EveningSlots) /\ booked_info[b][3] # FAILED

\* C4: if both resources succeed on the morning strategy, no evening request
\* is ever issued in that run.
C4_StopAtFirstSuccess ==
  (DOMAIN result = {1, 2} /\ result[1].success /\ result[2].success) =>
     EveningCalls = {}

\* C5: a request that went to the network is reported as failed only after
\* ATTEMPTS_PER_SLOT tries have failed.
C5_FailedOnlyAfterMaxAttempts ==
  \A k \in 1..Len(threads) :
     (threads[k].pc = "done" /\ threads[k].tries > 0
        /\ ~tsp_result[threads[k].key].success) =>
       threads[k].tries = ATTEMPTS_PER_SLOT

\* C6: for every resource and slot within one strategy, the number of calls
\* to the reservation API never exceeds ATTEMPTS_PER_SLOT.
C6_AtMostMaxAttempts ==
  \A n \in 1..Len(requests) :
     Cardinality(CallsFor(requests[n].flat, requests[n].slot, requests[n].phase))
       <= ATTEMPTS_PER_SLOT

\* Every attempt of the run failed: both morning calls and both evening calls
\* were made.
C6_Witness ==
  /\ Finished
  /\ Cardinality(MorningCalls) = 2 /\ Cardinality(EveningCalls) = 2
  /\ \A n \in 1..Len(booked_info) : booked_info[n][3] = FAILED

\* C7: an outcome is successful if and only if the response is a JSON object
\* whose message is exactly the success literal, and only a successful
\* outcome carries a reservation id.
C7_SuccessIffLiteral ==
  \A k \in 1..Len(threads) :
     (threads[k].pc = "done" /\ threads[k].resp.kind # "none") =>
        /\ tsp_result[threads[k].key].success <=>
             (threads[k].resp.kind = "object" /\ threads[k].resp.message = SUCCESS_MESSAGE)
        /\ tsp_result[threads[k].key].facUserId # None =>
             tsp_result[threads[k].key].success

\* C8: when the booking day has no entry in the day-to-pair mapping, no
\* reservation request is ever issued, no pair is resolved, and the run ends
\* with exactly one report, saying nothing is scheduled for that day.
C8_NoMapping ==
  (cfg.loadOk /\ ~cfg.mapIsNone /\ booking_day \notin cfg.keys) =>
     /\ requests = <<>> /\ threads = <<>> /\ flats_pair = <<>>
     /\ pc \in {"load", "resolve", "done"}
     /\ pc = "done" =>
          /\ Len(sent) = 1
          /\ sent[1].kind = "NoBookingScheduled" /\ sent[1].day = booking_day

\* A run for an unmapped day, under a config that maps other days, has ended.
C8_Witness ==
  /\ pc = "done" /\ cfg.loadOk /\ ~cfg.mapIsNone
  /\ cfg.keys # {} /\ booking_day \notin cfg.keys

\* C9: once the pair is resolved and past the cookie check, if a resource of
\* the pair has no cookie the run has ended without starting a thread or
\* sending a request, with exactly one report, naming the first such resource
\* by its display name.
C9_MissingCredential ==
  LET missing == {n \in 1..Len(flats_pair) :
                    flats_info[flats_pair[n]].cookie_env \notin env}
  IN (flats_pair # <<>> /\ pc # "check" /\ missing # {}) =>
       /\ pc = "done" /\ requests = <<>> /\ threads = <<>>
       /\ Len(sent) = 1 /\ sent[1].kind = "CookieMissing"
       /\ \E n \in missing :
            /\ \A m \in missing : n <= m
            /\ sent[1].display = flats_info[flats_pair[n]].display

\* The run ended at the cookie check because the second resource of the pair
\* has no cookie while the first has one.
C9_Witness ==
  /\ pc = "done" /\ Len(flats_pair) = 2
  /\ flats_info[flats_pair[1]].cookie_env \in env
  /\ flats_info[flats_pair[2]].cookie_env \notin env

\* C10: a run whose booking day is a weekend day present in the mapping
\* never issues a morning-slot request.
C10_WeekendNoMorning ==
  (booking_day \in Weekend /\ ~cfg.mapIsNone /\ booking_day \in cfg.keys) =>
     \A n \in 1..Len(requests) :
        requests[n].phase # "morning" /\ requests[n].slot \notin Range(MorningSlots)

\* Failures of the transport: the post raised, or the body is not JSON.
Transport == {"exception", "nonjson"}
Retried(n) == CallsFor(flats_pair[n], EveningSlots[n], "evening") # {}
AllCookiesSet == \A n \in 1..Len(flats_pair) : flats_info[flats_pair[n]].cookie_env \in env

\* C11: every run terminates, and when it has terminated exactly the report
\* of its path has been handed to the notifier: the config load error, the
\* unexpected-failure notification after a fault, nothing scheduled, the
\* missing cookie, or the final booking report.
C11_AlwaysReports ==
  /\ <>(pc = "done")
  /\ [](pc = "done" =>
          /\ sent # <<>>
          /\ sent[Len(sent)].kind =
               IF ~cfg.loadOk THEN "ConfigLoadError"
               ELSE IF cfg.mapIsNone THEN "Crashed"
               ELSE IF booking_day \notin cfg.keys THEN "NoBookingScheduled"
               ELSE IF ~AllCookiesSet THEN "CookieMissing"
               ELSE "Final")

\* A run that hit an internal fault has ended with the unexpected-failure
\* notification.
C11_Witness == pc = "done" /\ sent # <<>> /\ sent[Len(sent)].kind = "Crashed"

\* C12: while one resource's request of a strategy is in flight and the
\* other resource is still to be attempted in that strategy, the other
\* resource's attempt exists as a thread whose dispatch does not wait for the
\* request in flight, in the evening as in the morning.
C12_ConcurrentDispatch ==
  \A k \in 1..Len(threads), m \in 1..Len(flats_pair) :
     (/\ threads[k].pc = "wait"
      /\ threads[k].flat # flats_pair[m]
      /\ IF phase = "morning"
           THEN CallsFor(flats_pair[m], MorningSlots[m], "morning") = {}
           ELSE m > i /\ booked_info[m][3] = FAILED /\ ~Retried(m)) =>
       \E j \in 1..Len(threads) :
          threads[j].flat = flats_pair[m] /\ threads[j].pc \in {"new", "start", "post"}

\* C13: an entry of the result dict is written only by the step of the
\* thread holding that key, which leaves the other threads alone; and
\* try_slot_pair returns only when every thread is done, returning a dict
\* with exactly one entry per thread, entry k being what thread k made of
\* its own response.
C13_OwnOutcomeSlots ==
  /\ [][\A k \in DOMAIN tsp_result' :
          (k \notin DOMAIN tsp_result \/ tsp_result'[k] # tsp_result[k]) =>
             /\ k \in 1..Len(threads) /\ Len(threads') = Len(threads)
             /\ threads[k].pc \in {"start", "wait"} /\ threads'[k].pc = "done"
             /\ \A j \in 1..Len(threads) : j # k => threads'[j] = threads[j]]_vars
  /\ [][(pc = "join" /\ pc' # "join") =>
          /\ \A k \in 1..Len(threads) : threads[k].pc = "done"
          /\ DOMAIN tsp_result = 1..Len(threads)
          /\ IF phase = "morning" THEN result' = tsp_result ELSE res_evening' = tsp_result
          /\ \A k \in 1..Len(threads) :
                /\ tsp_result[k].success =>
                     (threads[k].resp.kind = "object" /\ threads[k].resp.message = SUCCESS_MESSAGE)
                /\ tsp_result[k].facUserId \in {None, threads[k].resp.data.facUserId}]_vars

\* The morning call has returned two different outcomes, one per resource.
C13_Witness == pc = "collect" /\ DOMAIN result = {1, 2} /\ result[1] # result[2]

\* C14: a transport failure of one resource's request is stored as a failed
\* outcome under that resource's key in the step that receives it, which
\* touches no other outcome, does not move main and sends no report; no run
\* that has sent a request ends in the fault handler; and a run that has
\* sent a request goes on to the final report, having retried in the evening
\* every resource whose morning outcome failed when evening slots exist.
C14_TransportFailureAbsorbed ==
  /\ [][\A k \in 1..Len(threads) :
          (threads[k].pc = "wait" /\ Len(threads') = Len(threads)
             /\ threads'[k].resp.kind \in Transport) =>
            /\ tsp_result'[threads[k].key] = [success |-> FALSE, facUserId |-> None]
            /\ \A j \in DOMAIN tsp_result :
                  j # threads[k].key => (j \in DOMAIN tsp_result' /\ tsp_result'[j] = tsp_result[j])
            /\ pc' = pc /\ sent' = sent]_vars
  /\ [](pc = "crash" => requests = <<>>)
  /\ [](requests # <<>> => <>Finished)
  /\ [](Finished =>
          (cfg.hasEvening => \A n \in 1..Len(flats_pair) : ~result[n].success => Retried(n)))

\* One thread has stored the failure of its transport while the other
\* thread's outcome is a success.
C14_Witness ==
  \E k, j \in 1..Len(threads) :
     /\ threads[k].pc = "done" /\ threads[k].resp.kind \in Transport
     /\ threads[j].pc = "done" /\ tsp_result[threads[j].key].success

\* C15: no request is sent for a resource whose cookie is not set, whatever
\* the environment make_booking finds; the attempt of such a resource ends
\* with a failed outcome and without a try.
C15_NoRequestWithoutCookie ==
  /\ \A n \in 1..Len(requests) : flats_info[requests[n].flat].cookie_env \in env
  /\ \A k \in 1..Len(threads) :
        (threads[k].pc = "done" /\ flats_info[threads[k].flat].cookie_env \notin env) =>
          /\ threads[k].tries = 0
          /\ tsp_result[threads[k].key] = [success |-> FALSE, facUserId |-> None]

\* A thread without a cookie is done while the other resource's request
\* went out.
C15_Witness ==
  /\ requests # <<>>
  /\ \E k \in 1..Len(threads) :
        threads[k].pc = "done" /\ flats_info[threads[k].flat].cookie_env \notin env

\* C16: the final report has one line per resource of the pair, each with
\* the slot of the strategy last attempted for that resource, its display
\* name, and a reservation id exactly when that resource's final outcome
\* succeeded (the failure marker otherwise).
C16_ReportLines ==
  Finished =>
    LET lines == sent[Len(sent)].success_lines \o sent[Len(sent)].fail_lines
        last == IF \E n \in 1..Len(flats_pair) : Retried(n)
                  THEN CHOOSE n \in 1..Len(flats_pair) :
                         Retried(n) /\ \A m \in 1..Len(flats_pair) : Retried(m) => m <= n
                  ELSE 0
    IN /\ Len(lines) = Len(flats_pair)
       /\ \A n \in 1..Len(flats_pair) :
             \E l \in 1..Len(lines) :
                /\ lines[l][2] = flats_info[flats_pair[n]].display
                /\ lines[l][1] = IF Retried(n) THEN EveningSlots[n] ELSE MorningSlots[n]
                /\ ~Retried(n) => (lines[l][3] # FAILED <=> result[n].success)
                /\ n = last => (lines[l][3] # FAILED <=> res_evening[1].success)

\* C17: a step that hands a message to the notifier moves main to the same
\* place whether or not the message is delivered and leaves the booking
\* outcomes and requests alone; no run reaches the fault handler after a
\* notification; and after the final report write_log is called, the record
\* holding that report unless the write itself failed.
C17_NotifierFailureHarmless ==
  /\ [][sent' # sent =>
          /\ pc' = IF pc = "report" THEN "log" ELSE "done"
          /\ booked_info' = booked_info /\ result' = result
          /\ res_evening' = res_evening /\ requests' = requests]_vars
  /\ [](pc = "crash" => sent = <<>>)
  /\ [](Finished => (written # "no" /\ (written = "ok" => log = sent[Len(sent)])))

\* A configured notifier failed to deliver the final report and the record
\* of the run was written.
C17_Witness ==
  /\ Finished /\ TELEGRAM_BOT_TOKEN /\ TELEGRAM_CHAT_ID
  /\ delivered = <<>> /\ written = "ok" /\ log = sent[Len(sent)]

\* C18: at the end of every run, aborted or completed, the persisted record
\* equals the message handed to the notifier in that run.
C18_RecordEqualsNotification ==
  pc = "done" => (sent # <<>> /\ log = sent[Len(sent)])

\* C19: an evening request for a resource is sent only when both morning
\* outcomes are in, that resource's morning outcome failed, evening slots
\* are configured, and no evening request for it was sent before.
C19_EveningOnlyAfterFailure ==
  [][\A n \in 1..Len(flats_pair) :
        (/\ Len(requests') = Len(requests) + 1
         /\ requests'[Len(requests')].phase = "evening"
         /\ requests'[Len(requests')].flat = flats_pair[n]) =>
          /\ DOMAIN result = 1..Len(flats_pair)
          /\ ~result[n].success
          /\ cfg.hasEvening
          /\ ~Retried(n)]_vars

\* C20: a run hands at most one message to the notifier, and the notifier
\* delivers no more than it was handed.
C20_AtMostOneMessage == Len(sent) <= 1 /\ Len(delivered) <= Len(sent)

\* A run aborted by a config load error has ended with its one message.
C20_Witness == pc = "done" /\ Len(sent) = 1 /\ sent[1].kind = "ConfigLoadError"

====
